---- MODULE Spec2Model ----
(***************************************************************************)
(* Model of the lexer in src/lexer.rs: tokenize(source_code) scans a UTF-8 *)
(* buffer with four anchored regexes tried in a fixed order and returns a  *)
(* Vec<Token>.  A string is the sequence of its UTF-8 bytes (0..255), so   *)
(* byte offsets (index, start, end) and character boundaries are the ones  *)
(* the program sees.                                                       *)
(***************************************************************************)
EXTENDS Integers, Sequences, FiniteSets

VARIABLES source, index, tokens, pc

vars == <<source, index, tokens, pc>>

(***************************************************************************)
(* Bounds of the explored inputs.                                          *)
(***************************************************************************)
MaxChunks == 3

(***************************************************************************)
(* UTF-8 and the character classes the regexes use.                        *)
(***************************************************************************)

\* A UTF-8 continuation byte, 0b10xxxxxx.
IsContinuation(b) == b \in 128..191

\* str::is_char_boundary, which the slice source_code[index..] requires.
IsCharBoundary(s, i) ==
    \/ i = 0
    \/ i = Len(s)
    \/ (i > 0 /\ i < Len(s) /\ ~IsContinuation(s[i + 1]))

\* Byte length of the character whose lead byte is b.
CharLen(b) ==
    IF b < 128 THEN 1
    ELSE IF b \in 192..223 THEN 2
    ELSE IF b \in 224..239 THEN 3
    ELSE 4

\* The i-th byte of s as a continuation payload (0 when the buffer ends).
Payload(s, i) == IF i <= Len(s) THEN s[i] % 64 ELSE 0

\* Code point of the character whose lead byte is s[i].
CodePointAt(s, i) ==
    LET n == CharLen(s[i])
    IN  IF n = 1 THEN s[i]
        ELSE IF n = 2 THEN (s[i] % 32) * 64 + Payload(s, i + 1)
        ELSE IF n = 3
             THEN (s[i] % 16) * 4096 + Payload(s, i + 1) * 64 + Payload(s, i + 2)
        ELSE (s[i] % 8) * 262144 + Payload(s, i + 1) * 4096
                 + Payload(s, i + 2) * 64 + Payload(s, i + 3)

\* [a-zA-Z_]
IsIdentStart(b) == b \in (65..90) \cup (97..122) \cup {95}

\* [a-zA-Z0-9_]
IsIdentChar(b) == IsIdentStart(b) \/ b \in 48..57

\* The code points above ASCII in the regex crate's Unicode \w, the class
\* behind \b: \p{Alphabetic}, \p{M}, \p{Nd}, \p{Pc} and \p{Join_Control},
\* as inclusive ranges <<first, last>>.  The tables are those of Unicode
\* 16.0, which regex 1.12 carries (the repository pins no version).
UnicodeWordRanges ==
    { <<170, 170>>, <<181, 181>>, <<186, 186>>, <<192, 214>>, <<216, 246>>,
       <<248, 705>>, <<710, 721>>, <<736, 740>>, <<748, 748>>, <<750, 750>>,
       <<768, 884>>, <<886, 887>>, <<890, 893>>, <<895, 895>>, <<902, 902>>,
       <<904, 906>>, <<908, 908>>, <<910, 929>>, <<931, 1013>>,
       <<1015, 1153>>, <<1155, 1327>>, <<1329, 1366>>, <<1369, 1369>>,
       <<1376, 1416>>, <<1425, 1469>>, <<1471, 1471>>, <<1473, 1474>>,
       <<1476, 1477>>, <<1479, 1479>>, <<1488, 1514>>, <<1519, 1522>>,
       <<1552, 1562>>, <<1568, 1641>>, <<1646, 1747>>, <<1749, 1756>>,
       <<1759, 1768>>, <<1770, 1788>>, <<1791, 1791>>, <<1808, 1866>>,
       <<1869, 1969>>, <<1984, 2037>>, <<2042, 2042>>, <<2045, 2045>>,
       <<2048, 2093>>, <<2112, 2139>>, <<2144, 2154>>, <<2160, 2183>>,
       <<2185, 2190>>, <<2199, 2273>>, <<2275, 2403>>, <<2406, 2415>>,
       <<2417, 2435>>, <<2437, 2444>>, <<2447, 2448>>, <<2451, 2472>>,
       <<2474, 2480>>, <<2482, 2482>>, <<2486, 2489>>, <<2492, 2500>>,
       <<2503, 2504>>, <<2507, 2510>>, <<2519, 2519>>, <<2524, 2525>>,
       <<2527, 2531>>, <<2534, 2545>>, <<2556, 2556>>, <<2558, 2558>>,
       <<2561, 2563>>, <<2565, 2570>>, <<2575, 2576>>, <<2579, 2600>>,
       <<2602, 2608>>, <<2610, 2611>>, <<2613, 2614>>, <<2616, 2617>>,
       <<2620, 2620>>, <<2622, 2626>>, <<2631, 2632>>, <<2635, 2637>>,
       <<2641, 2641>>, <<2649, 2652>>, <<2654, 2654>>, <<2662, 2677>>,
       <<2689, 2691>>, <<2693, 2701>>, <<2703, 2705>>, <<2707, 2728>>,
       <<2730, 2736>>, <<2738, 2739>>, <<2741, 2745>>, <<2748, 2757>>,
       <<2759, 2761>>, <<2763, 2765>>, <<2768, 2768>>, <<2784, 2787>>,
       <<2790, 2799>>, <<2809, 2815>>, <<2817, 2819>>, <<2821, 2828>>,
       <<2831, 2832>>, <<2835, 2856>>, <<2858, 2864>>, <<2866, 2867>>,
       <<2869, 2873>>, <<2876, 2884>>, <<2887, 2888>>, <<2891, 2893>>,
       <<2901, 2903>>, <<2908, 2909>>, <<2911, 2915>>, <<2918, 2927>>,
       <<2929, 2929>>, <<2946, 2947>>, <<2949, 2954>>, <<2958, 2960>>,
       <<2962, 2965>>, <<2969, 2970>>, <<2972, 2972>>, <<2974, 2975>>,
       <<2979, 2980>>, <<2984, 2986>>, <<2990, 3001>>, <<3006, 3010>>,
       <<3014, 3016>>, <<3018, 3021>>, <<3024, 3024>>, <<3031, 3031>>,
       <<3046, 3055>>, <<3072, 3084>>, <<3086, 3088>>, <<3090, 3112>>,
       <<3114, 3129>>, <<3132, 3140>>, <<3142, 3144>>, <<3146, 3149>>,
       <<3157, 3158>>, <<3160, 3162>>, <<3165, 3165>>, <<3168, 3171>>,
       <<3174, 3183>>, <<3200, 3203>>, <<3205, 3212>>, <<3214, 3216>>,
       <<3218, 3240>>, <<3242, 3251>>, <<3253, 3257>>, <<3260, 3268>>,
       <<3270, 3272>>, <<3274, 3277>>, <<3285, 3286>>, <<3293, 3294>>,
       <<3296, 3299>>, <<3302, 3311>>, <<3313, 3315>>, <<3328, 3340>>,
       <<3342, 3344>>, <<3346, 3396>>, <<3398, 3400>>, <<3402, 3406>>,
       <<3412, 3415>>, <<3423, 3427>>, <<3430, 3439>>, <<3450, 3455>>,
       <<3457, 3459>>, <<3461, 3478>>, <<3482, 3505>>, <<3507, 3515>>,
       <<3517, 3517>>, <<3520, 3526>>, <<3530, 3530>>, <<3535, 3540>>,
       <<3542, 3542>>, <<3544, 3551>>, <<3558, 3567>>, <<3570, 3571>>,
       <<3585, 3642>>, <<3648, 3662>>, <<3664, 3673>>, <<3713, 3714>>,
       <<3716, 3716>>, <<3718, 3722>>, <<3724, 3747>>, <<3749, 3749>>,
       <<3751, 3773>>, <<3776, 3780>>, <<3782, 3782>>, <<3784, 3790>>,
       <<3792, 3801>>, <<3804, 3807>>, <<3840, 3840>>, <<3864, 3865>>,
       <<3872, 3881>>, <<3893, 3893>>, <<3895, 3895>>, <<3897, 3897>>,
       <<3902, 3911>>, <<3913, 3948>>, <<3953, 3972>>, <<3974, 3991>>,
       <<3993, 4028>>, <<4038, 4038>>, <<4096, 4169>>, <<4176, 4253>>,
       <<4256, 4293>>, <<4295, 4295>>, <<4301, 4301>>, <<4304, 4346>>,
       <<4348, 4680>>, <<4682, 4685>>, <<4688, 4694>>, <<4696, 4696>>,
       <<4698, 4701>>, <<4704, 4744>>, <<4746, 4749>>, <<4752, 4784>>,
       <<4786, 4789>>, <<4792, 4798>>, <<4800, 4800>>, <<4802, 4805>>,
       <<4808, 4822>>, <<4824, 4880>>, <<4882, 4885>>, <<4888, 4954>>,
       <<4957, 4959>>, <<4992, 5007>>, <<5024, 5109>>, <<5112, 5117>>,
       <<5121, 5740>>, <<5743, 5759>>, <<5761, 5786>>, <<5792, 5866>>,
       <<5870, 5880>>, <<5888, 5909>>, <<5919, 5940>>, <<5952, 5971>>,
       <<5984, 5996>>, <<5998, 6000>>, <<6002, 6003>>, <<6016, 6099>>,
       <<6103, 6103>>, <<6108, 6109>>, <<6112, 6121>>, <<6155, 6157>>,
       <<6159, 6169>>, <<6176, 6264>>, <<6272, 6314>>, <<6320, 6389>>,
       <<6400, 6430>>, <<6432, 6443>>, <<6448, 6459>>, <<6470, 6509>>,
       <<6512, 6516>>, <<6528, 6571>>, <<6576, 6601>>, <<6608, 6617>>,
       <<6656, 6683>>, <<6688, 6750>>, <<6752, 6780>>, <<6783, 6793>>,
       <<6800, 6809>>, <<6823, 6823>>, <<6832, 6862>>, <<6912, 6988>>,
       <<6992, 7001>>, <<7019, 7027>>, <<7040, 7155>>, <<7168, 7223>>,
       <<7232, 7241>>, <<7245, 7293>>, <<7296, 7306>>, <<7312, 7354>>,
       <<7357, 7359>>, <<7376, 7378>>, <<7380, 7418>>, <<7424, 7957>>,
       <<7960, 7965>>, <<7968, 8005>>, <<8008, 8013>>, <<8016, 8023>>,
       <<8025, 8025>>, <<8027, 8027>>, <<8029, 8029>>, <<8031, 8061>>,
       <<8064, 8116>>, <<8118, 8124>>, <<8126, 8126>>, <<8130, 8132>>,
       <<8134, 8140>>, <<8144, 8147>>, <<8150, 8155>>, <<8160, 8172>>,
       <<8178, 8180>>, <<8182, 8188>>, <<8204, 8205>>, <<8255, 8256>>,
       <<8276, 8276>>, <<8305, 8305>>, <<8319, 8319>>, <<8336, 8348>>,
       <<8400, 8432>>, <<8450, 8450>>, <<8455, 8455>>, <<8458, 8467>>,
       <<8469, 8469>>, <<8473, 8477>>, <<8484, 8484>>, <<8486, 8486>>,
       <<8488, 8488>>, <<8490, 8493>>, <<8495, 8505>>, <<8508, 8511>>,
       <<8517, 8521>>, <<8526, 8526>>, <<8544, 8584>>, <<9398, 9449>>,
       <<11264, 11492>>, <<11499, 11507>>, <<11520, 11557>>, <<11559, 11559>>,
       <<11565, 11565>>, <<11568, 11623>>, <<11631, 11631>>, <<11647, 11670>>,
       <<11680, 11686>>, <<11688, 11694>>, <<11696, 11702>>, <<11704, 11710>>,
       <<11712, 11718>>, <<11720, 11726>>, <<11728, 11734>>, <<11736, 11742>>,
       <<11744, 11775>>, <<11823, 11823>>, <<12293, 12295>>, <<12321, 12335>>,
       <<12337, 12341>>, <<12344, 12348>>, <<12353, 12438>>, <<12441, 12442>>,
       <<12445, 12447>>, <<12449, 12538>>, <<12540, 12543>>, <<12549, 12591>>,
       <<12593, 12686>>, <<12704, 12735>>, <<12784, 12799>>, <<13312, 19903>>,
       <<19968, 42124>>, <<42192, 42237>>, <<42240, 42508>>, <<42512, 42539>>,
       <<42560, 42610>>, <<42612, 42621>>, <<42623, 42737>>, <<42775, 42783>>,
       <<42786, 42888>>, <<42891, 42957>>, <<42960, 42961>>, <<42963, 42963>>,
       <<42965, 42972>>, <<42994, 43047>>, <<43052, 43052>>, <<43072, 43123>>,
       <<43136, 43205>>, <<43216, 43225>>, <<43232, 43255>>, <<43259, 43259>>,
       <<43261, 43309>>, <<43312, 43347>>, <<43360, 43388>>, <<43392, 43456>>,
       <<43471, 43481>>, <<43488, 43518>>, <<43520, 43574>>, <<43584, 43597>>,
       <<43600, 43609>>, <<43616, 43638>>, <<43642, 43714>>, <<43739, 43741>>,
       <<43744, 43759>>, <<43762, 43766>>, <<43777, 43782>>, <<43785, 43790>>,
       <<43793, 43798>>, <<43808, 43814>>, <<43816, 43822>>, <<43824, 43866>>,
       <<43868, 43881>>, <<43888, 44010>>, <<44012, 44013>>, <<44016, 44025>>,
       <<44032, 55203>>, <<55216, 55238>>, <<55243, 55291>>, <<63744, 64109>>,
       <<64112, 64217>>, <<64256, 64262>>, <<64275, 64279>>, <<64285, 64296>>,
       <<64298, 64310>>, <<64312, 64316>>, <<64318, 64318>>, <<64320, 64321>>,
       <<64323, 64324>>, <<64326, 64433>>, <<64467, 64829>>, <<64848, 64911>>,
       <<64914, 64967>>, <<65008, 65019>>, <<65024, 65039>>, <<65056, 65071>>,
       <<65075, 65076>>, <<65101, 65103>>, <<65136, 65140>>, <<65142, 65276>>,
       <<65296, 65305>>, <<65313, 65338>>, <<65343, 65343>>, <<65345, 65370>>,
       <<65382, 65470>>, <<65474, 65479>>, <<65482, 65487>>, <<65490, 65495>>,
       <<65498, 65500>>, <<65536, 65547>>, <<65549, 65574>>, <<65576, 65594>>,
       <<65596, 65597>>, <<65599, 65613>>, <<65616, 65629>>, <<65664, 65786>>,
       <<65856, 65908>>, <<66045, 66045>>, <<66176, 66204>>, <<66208, 66256>>,
       <<66272, 66272>>, <<66304, 66335>>, <<66349, 66378>>, <<66384, 66426>>,
       <<66432, 66461>>, <<66464, 66499>>, <<66504, 66511>>, <<66513, 66517>>,
       <<66560, 66717>>, <<66720, 66729>>, <<66736, 66771>>, <<66776, 66811>>,
       <<66816, 66855>>, <<66864, 66915>>, <<66928, 66938>>, <<66940, 66954>>,
       <<66956, 66962>>, <<66964, 66965>>, <<66967, 66977>>, <<66979, 66993>>,
       <<66995, 67001>>, <<67003, 67004>>, <<67008, 67059>>, <<67072, 67382>>,
       <<67392, 67413>>, <<67424, 67431>>, <<67456, 67461>>, <<67463, 67504>>,
       <<67506, 67514>>, <<67584, 67589>>, <<67592, 67592>>, <<67594, 67637>>,
       <<67639, 67640>>, <<67644, 67644>>, <<67647, 67669>>, <<67680, 67702>>,
       <<67712, 67742>>, <<67808, 67826>>, <<67828, 67829>>, <<67840, 67861>>,
       <<67872, 67897>>, <<67968, 68023>>, <<68030, 68031>>, <<68096, 68099>>,
       <<68101, 68102>>, <<68108, 68115>>, <<68117, 68119>>, <<68121, 68149>>,
       <<68152, 68154>>, <<68159, 68159>>, <<68192, 68220>>, <<68224, 68252>>,
       <<68288, 68295>>, <<68297, 68326>>, <<68352, 68405>>, <<68416, 68437>>,
       <<68448, 68466>>, <<68480, 68497>>, <<68608, 68680>>, <<68736, 68786>>,
       <<68800, 68850>>, <<68864, 68903>>, <<68912, 68921>>, <<68928, 68965>>,
       <<68969, 68973>>, <<68975, 68997>>, <<69248, 69289>>, <<69291, 69292>>,
       <<69296, 69297>>, <<69314, 69316>>, <<69372, 69404>>, <<69415, 69415>>,
       <<69424, 69456>>, <<69488, 69509>>, <<69552, 69572>>, <<69600, 69622>>,
       <<69632, 69702>>, <<69734, 69749>>, <<69759, 69818>>, <<69826, 69826>>,
       <<69840, 69864>>, <<69872, 69881>>, <<69888, 69940>>, <<69942, 69951>>,
       <<69956, 69959>>, <<69968, 70003>>, <<70006, 70006>>, <<70016, 70084>>,
       <<70089, 70092>>, <<70094, 70106>>, <<70108, 70108>>, <<70144, 70161>>,
       <<70163, 70199>>, <<70206, 70209>>, <<70272, 70278>>, <<70280, 70280>>,
       <<70282, 70285>>, <<70287, 70301>>, <<70303, 70312>>, <<70320, 70378>>,
       <<70384, 70393>>, <<70400, 70403>>, <<70405, 70412>>, <<70415, 70416>>,
       <<70419, 70440>>, <<70442, 70448>>, <<70450, 70451>>, <<70453, 70457>>,
       <<70459, 70468>>, <<70471, 70472>>, <<70475, 70477>>, <<70480, 70480>>,
       <<70487, 70487>>, <<70493, 70499>>, <<70502, 70508>>, <<70512, 70516>>,
       <<70528, 70537>>, <<70539, 70539>>, <<70542, 70542>>, <<70544, 70581>>,
       <<70583, 70592>>, <<70594, 70594>>, <<70597, 70597>>, <<70599, 70602>>,
       <<70604, 70611>>, <<70625, 70626>>, <<70656, 70730>>, <<70736, 70745>>,
       <<70750, 70753>>, <<70784, 70853>>, <<70855, 70855>>, <<70864, 70873>>,
       <<71040, 71093>>, <<71096, 71104>>, <<71128, 71133>>, <<71168, 71232>>,
       <<71236, 71236>>, <<71248, 71257>>, <<71296, 71352>>, <<71360, 71369>>,
       <<71376, 71395>>, <<71424, 71450>>, <<71453, 71467>>, <<71472, 71481>>,
       <<71488, 71494>>, <<71680, 71738>>, <<71840, 71913>>, <<71935, 71942>>,
       <<71945, 71945>>, <<71948, 71955>>, <<71957, 71958>>, <<71960, 71989>>,
       <<71991, 71992>>, <<71995, 72003>>, <<72016, 72025>>, <<72096, 72103>>,
       <<72106, 72151>>, <<72154, 72161>>, <<72163, 72164>>, <<72192, 72254>>,
       <<72263, 72263>>, <<72272, 72345>>, <<72349, 72349>>, <<72368, 72440>>,
       <<72640, 72672>>, <<72688, 72697>>, <<72704, 72712>>, <<72714, 72758>>,
       <<72760, 72768>>, <<72784, 72793>>, <<72818, 72847>>, <<72850, 72871>>,
       <<72873, 72886>>, <<72960, 72966>>, <<72968, 72969>>, <<72971, 73014>>,
       <<73018, 73018>>, <<73020, 73021>>, <<73023, 73031>>, <<73040, 73049>>,
       <<73056, 73061>>, <<73063, 73064>>, <<73066, 73102>>, <<73104, 73105>>,
       <<73107, 73112>>, <<73120, 73129>>, <<73440, 73462>>, <<73472, 73488>>,
       <<73490, 73530>>, <<73534, 73538>>, <<73552, 73562>>, <<73648, 73648>>,
       <<73728, 74649>>, <<74752, 74862>>, <<74880, 75075>>, <<77712, 77808>>,
       <<77824, 78895>>, <<78912, 78933>>, <<78944, 82938>>, <<82944, 83526>>,
       <<90368, 90425>>, <<92160, 92728>>, <<92736, 92766>>, <<92768, 92777>>,
       <<92784, 92862>>, <<92864, 92873>>, <<92880, 92909>>, <<92912, 92916>>,
       <<92928, 92982>>, <<92992, 92995>>, <<93008, 93017>>, <<93027, 93047>>,
       <<93053, 93071>>, <<93504, 93548>>, <<93552, 93561>>, <<93760, 93823>>,
       <<93952, 94026>>, <<94031, 94087>>, <<94095, 94111>>, <<94176, 94177>>,
       <<94179, 94180>>, <<94192, 94193>>, <<94208, 100343>>,
       <<100352, 101589>>, <<101631, 101640>>, <<110576, 110579>>,
       <<110581, 110587>>, <<110589, 110590>>, <<110592, 110882>>,
       <<110898, 110898>>, <<110928, 110930>>, <<110933, 110933>>,
       <<110948, 110951>>, <<110960, 111355>>, <<113664, 113770>>,
       <<113776, 113788>>, <<113792, 113800>>, <<113808, 113817>>,
       <<113821, 113822>>, <<118000, 118009>>, <<118528, 118573>>,
       <<118576, 118598>>, <<119141, 119145>>, <<119149, 119154>>,
       <<119163, 119170>>, <<119173, 119179>>, <<119210, 119213>>,
       <<119362, 119364>>, <<119808, 119892>>, <<119894, 119964>>,
       <<119966, 119967>>, <<119970, 119970>>, <<119973, 119974>>,
       <<119977, 119980>>, <<119982, 119993>>, <<119995, 119995>>,
       <<119997, 120003>>, <<120005, 120069>>, <<120071, 120074>>,
       <<120077, 120084>>, <<120086, 120092>>, <<120094, 120121>>,
       <<120123, 120126>>, <<120128, 120132>>, <<120134, 120134>>,
       <<120138, 120144>>, <<120146, 120485>>, <<120488, 120512>>,
       <<120514, 120538>>, <<120540, 120570>>, <<120572, 120596>>,
       <<120598, 120628>>, <<120630, 120654>>, <<120656, 120686>>,
       <<120688, 120712>>, <<120714, 120744>>, <<120746, 120770>>,
       <<120772, 120779>>, <<120782, 120831>>, <<121344, 121398>>,
       <<121403, 121452>>, <<121461, 121461>>, <<121476, 121476>>,
       <<121499, 121503>>, <<121505, 121519>>, <<122624, 122654>>,
       <<122661, 122666>>, <<122880, 122886>>, <<122888, 122904>>,
       <<122907, 122913>>, <<122915, 122916>>, <<122918, 122922>>,
       <<122928, 122989>>, <<123023, 123023>>, <<123136, 123180>>,
       <<123184, 123197>>, <<123200, 123209>>, <<123214, 123214>>,
       <<123536, 123566>>, <<123584, 123641>>, <<124112, 124153>>,
       <<124368, 124410>>, <<124896, 124902>>, <<124904, 124907>>,
       <<124909, 124910>>, <<124912, 124926>>, <<124928, 125124>>,
       <<125136, 125142>>, <<125184, 125259>>, <<125264, 125273>>,
       <<126464, 126467>>, <<126469, 126495>>, <<126497, 126498>>,
       <<126500, 126500>>, <<126503, 126503>>, <<126505, 126514>>,
       <<126516, 126519>>, <<126521, 126521>>, <<126523, 126523>>,
       <<126530, 126530>>, <<126535, 126535>>, <<126537, 126537>>,
       <<126539, 126539>>, <<126541, 126543>>, <<126545, 126546>>,
       <<126548, 126548>>, <<126551, 126551>>, <<126553, 126553>>,
       <<126555, 126555>>, <<126557, 126557>>, <<126559, 126559>>,
       <<126561, 126562>>, <<126564, 126564>>, <<126567, 126570>>,
       <<126572, 126578>>, <<126580, 126583>>, <<126585, 126588>>,
       <<126590, 126590>>, <<126592, 126601>>, <<126603, 126619>>,
       <<126625, 126627>>, <<126629, 126633>>, <<126635, 126651>>,
       <<127280, 127305>>, <<127312, 127337>>, <<127344, 127369>>,
       <<130032, 130041>>, <<131072, 173791>>, <<173824, 177977>>,
       <<177984, 178205>>, <<178208, 183969>>, <<183984, 191456>>,
       <<191472, 192093>>, <<194560, 195101>>, <<196608, 201546>>,
       <<201552, 205743>>, <<917760, 917999>> }

\* \w: the ASCII word characters [0-9A-Za-z_] and, above ASCII, the code
\* points of UnicodeWordRanges.
IsWordChar(cp) ==
    IF cp < 128 THEN IsIdentChar(cp)
    ELSE \E r \in UnicodeWordRanges : r[1] <= cp /\ cp <= r[2]

\* Position of the lead byte of the character that ends at byte offset n > 0.
LeadBefore(s, n) ==
    CHOOSE j \in 1..n :
        /\ ~IsContinuation(s[j])
        /\ \A k \in (j + 1)..n : IsContinuation(s[k])

\* \b at byte offset n of s: exactly one side is a word character.
WordBoundary(s, n) ==
    LET before == n > 0 /\ IsWordChar(CodePointAt(s, LeadBefore(s, n)))
        after  == n < Len(s) /\ IsWordChar(CodePointAt(s, n + 1))
    IN  before # after

\* s starts with w.
StartsWith(s, w) == Len(w) <= Len(s) /\ SubSeq(s, 1, Len(w)) = w

(***************************************************************************)
(* The four regexes.  Each gives the byte length of the match at the start *)
(* of s, 0 when there is none (none of them can match the empty string).   *)
(***************************************************************************)

\* A mis-ordered alternation, (\r\n|\r|\n), which takes a CR LF pair whole.
line_break_regex_crlf_first(s) ==
    IF StartsWith(s, <<13, 10>>) THEN 2
    ELSE IF StartsWith(s, <<13>>) THEN 1
    ELSE IF StartsWith(s, <<10>>) THEN 1
    ELSE 0

\* ^(\n|\r|\r\n): leftmost-first alternation, so "\r" wins over "\r\n".
line_break_regex(s) ==
    IF StartsWith(s, <<10>>) THEN 1
    ELSE IF StartsWith(s, <<13>>) THEN 1
    ELSE IF StartsWith(s, <<13, 10>>) THEN 2
    ELSE 0

\* A narrower class, [^"\s], that stops at white space.
NotQuoteNorSpace(b) == b \notin {34, 32, 9, 10, 13}

\* [^"]: any character but the double quote (line breaks included).  The
\* bytes of a multi-byte character are all >= 128, so on valid UTF-8 the
\* class is the bytes other than 34.
NotQuote(b) == b # 34

\* [^"]+ from s[i]: the length of the longest run of the class.
NotQuoteRun(s, i) ==
    CHOOSE n \in 0..(Len(s) - i + 1) :
        /\ \A j \in i..(i + n - 1) : NotQuote(s[j])
        /\ (i + n <= Len(s) => ~NotQuote(s[i + n]))

\* ^"([^"]+)": a quote, the maximal non-empty run of the class, a quote.
string_literal_regex(s) ==
    IF ~StartsWith(s, <<34>>) THEN 0
    ELSE LET n == NotQuoteRun(s, 2)
         IN  IF n >= 1 /\ n + 2 <= Len(s) /\ s[n + 2] = 34 THEN n + 2 ELSE 0

\* The alternatives of keywords_regex, in order, each with the TokenType
\* the match arm gives it.
Keywords ==
    << [word |-> <<112, 108, 117, 103, 105, 110>>,      token_type |-> "PluginKeyword"],  \* plugin
       [word |-> <<117, 115, 101>>,                     token_type |-> "UseKeyword"],     \* use
       [word |-> <<112, 114, 111, 112>>,                token_type |-> "PropKeyword"],    \* prop
       [word |-> <<101, 110, 117, 109>>,                token_type |-> "EnumKeyword"],    \* enum
       [word |-> <<116, 121, 112, 101>>,                token_type |-> "TypeKeyword"],    \* type
       [word |-> <<109, 111, 100, 101, 108>>,           token_type |-> "ModelKeyword"],   \* model
       [word |-> <<83, 116, 114, 105, 110, 103>>,       token_type |-> "StringType"],     \* String
       [word |-> <<78, 117, 109, 98, 101, 114>>,        token_type |-> "NumberType"],     \* Number
       [word |-> <<66, 111, 111, 108, 101, 97, 110>>,   token_type |-> "BooleanType"],    \* Boolean
       [word |-> <<84, 101, 120, 116>>,                 token_type |-> "TextType"],       \* Text
       [word |-> <<68, 97, 116, 101>>,                  token_type |-> "DateType"] >>     \* Date

\* ^(plugin|use|...|Date)\b: the first alternative that is a prefix of s
\* and ends at a word boundary.
keywords_regex(s) ==
    LET hits == {k \in DOMAIN Keywords :
                    /\ StartsWith(s, Keywords[k].word)
                    /\ WordBoundary(s, Len(Keywords[k].word))}
    IN  IF hits = {} THEN 0
        ELSE Len(Keywords[CHOOSE k \in hits : \A h \in hits : k <= h].word)

\* The match arm on matched_keyword; any other text maps to Identifier.
KeywordType(word) ==
    LET hits == {k \in DOMAIN Keywords : Keywords[k].word = word}
    IN  IF hits = {} THEN "Identifier"
        ELSE Keywords[CHOOSE k \in hits : TRUE].token_type

\* [a-zA-Z0-9_]* from s[i]: the length of the longest run of the class.
IdentCharRun(s, i) ==
    CHOOSE n \in 0..(Len(s) - i + 1) :
        /\ \A j \in i..(i + n - 1) : IsIdentChar(s[j])
        /\ (i + n <= Len(s) => ~IsIdentChar(s[i + n]))

\* ^[a-zA-Z_][a-zA-Z0-9_]*, greedy.
identifier_regex(s) ==
    IF s # <<>> /\ IsIdentStart(s[1]) THEN 1 + IdentCharRun(s, 2) ELSE 0

(***************************************************************************)
(* Tokens and the body of the scan loop.                                   *)
(***************************************************************************)

create_token(token_type, value, start, end) ==
    [token_type |-> token_type, value |-> value, start |-> start, end |-> end]

\* &source_code[index..]
curr_substring(s, idx) == SubSeq(s, idx + 1, Len(s))

\* The end offset computed without the cursor, matched.len() alone.
TokenEndNoIndex(idx, n) == n

\* index + matched.len(), the end offset handed to create_token.
TokenEnd(idx, n) == idx + n

\* Capture group 1 taken for the text: the body without its quotes.
matched_literal_group1(s, n) == SubSeq(s, 2, n - 1)

\* m.get(0).unwrap().as_str(): the whole match, quotes included.
matched_literal(s, n) == SubSeq(s, 1, n)

\* An advance of two bytes past an unmatched one.
NoMatchAdvanceTwo(idx) == idx + 2

\* index += 1 in the final else branch.
NoMatchAdvance(idx) == idx + 1

\* Which branch of the if/else-if chain runs on the suffix s.
Rule(s) ==
    IF line_break_regex(s) > 0 THEN "line_break"
    ELSE IF string_literal_regex(s) > 0 THEN "string_literal"
    ELSE IF keywords_regex(s) > 0 THEN "keyword"
    ELSE IF identifier_regex(s) > 0 THEN "identifier"
    ELSE "none"

\* One iteration of the loop body from cursor idx with vector toks: the
\* new cursor and vector.
Iteration(s, idx, toks) ==
    LET sub == curr_substring(s, idx)
        r   == Rule(sub)
    IN  IF r = "line_break"
        THEN LET n == line_break_regex(sub)
             IN  [tokens |-> Append(toks, create_token("LineBreak", SubSeq(sub, 1, n),
                                                       idx, TokenEnd(idx, n))),
                  index  |-> idx + n]
        ELSE IF r = "string_literal"
        THEN LET m == matched_literal(sub, string_literal_regex(sub))
             IN  [tokens |-> Append(toks, create_token("StringLiteral", m,
                                                       idx, TokenEnd(idx, Len(m)))),
                  index  |-> idx + Len(m)]
        ELSE IF r = "keyword"
        THEN LET m == SubSeq(sub, 1, keywords_regex(sub))
             IN  [tokens |-> Append(toks, create_token(KeywordType(m), m,
                                                       idx, TokenEnd(idx, Len(m)))),
                  index  |-> idx + Len(m)]
        ELSE IF r = "identifier"
        THEN LET m == SubSeq(sub, 1, identifier_regex(sub))
             IN  [tokens |-> Append(toks, create_token("Identifier", m,
                                                       idx, TokenEnd(idx, Len(m)))),
                  index  |-> idx + Len(m)]
        ELSE [tokens |-> toks, index |-> NoMatchAdvance(idx)]

\* The vector with an EOF sentinel appended at the final cursor.
ReturnValueWithEOF(toks, idx) == Append(toks, create_token("EOF", <<>>, idx, idx))

\* The value tokenize returns: the vector as the loop left it.
ReturnValue(toks, idx) == toks

\* tokenize as a function: ok is FALSE when the slice panics.
RECURSIVE Scan(_, _, _)
Scan(s, idx, toks) ==
    IF idx >= Len(s) THEN [ok |-> TRUE, tokens |-> ReturnValue(toks, idx)]
    ELSE IF ~IsCharBoundary(s, idx) THEN [ok |-> FALSE, tokens |-> <<>>]
    ELSE LET r == Iteration(s, idx, toks) IN Scan(s, r.index, r.tokens)

tokenize(s) == Scan(s, 0, <<>>)

(***************************************************************************)
(* Inputs: valid UTF-8 texts built from whole words and characters.        *)
(***************************************************************************)

Chunks ==
    { <<109, 111, 100, 101, 108>>,   \* model
      <<68, 97, 116, 101>>,          \* Date
      <<78, 97, 109, 101>>,          \* Name
      <<95>>,                        \* _
      <<52>>,                        \* 4
      <<45>>,                        \* -
      <<34>>,                        \* "
      <<32>>,                        \* space
      <<10>>,                        \* \n
      <<13>>,                        \* \r
      <<35>>,                        \* #
      <<195, 169>>,                  \* U+00E9, e with acute accent (a letter)
      <<228, 184, 173>>,             \* U+4E2D, a CJK ideograph (a letter)
      <<240, 144, 144, 128>>,        \* U+10400, a Deseret letter
      <<226, 130, 172>> }            \* U+20AC, euro sign (not a word character)

RECURSIVE Flatten(_)
Flatten(ss) == IF ss = <<>> THEN <<>> ELSE Head(ss) \o Flatten(Tail(ss))

ChunkSources ==
    UNION { { Flatten(f) : f \in [1..n -> Chunks] } : n \in 0..MaxChunks }

\* Every reserved word, alone or between two chunks.
KeywordSources ==
    { pre \o Keywords[k].word \o post :
        pre \in {<<>>, <<32>>, <<34>>}, k \in DOMAIN Keywords,
        post \in Chunks \cup {<<>>} }

RECURSIVE JoinKeywords(_)
JoinKeywords(k) ==
    IF k = Len(Keywords) THEN Keywords[k].word
    ELSE Keywords[k].word \o <<32>> \o JoinKeywords(k + 1)

\* The inputs of the repository's tests tokenize_line_break,
\* tokenize_keywords and tokenize_integers.
TestSources ==
    { <<10, 13, 10, 13>>,
      JoinKeywords(1),
      <<52, 32, 52, 52, 32, 52, 52, 52, 32, 45, 52, 32, 45, 52, 52>> }

Sources == ChunkSources \cup KeywordSources \cup TestSources

(***************************************************************************)
(* The state machine: one action per branch of the loop.                   *)
(***************************************************************************)

Init ==
    /\ source \in Sources
    /\ index = 0
    /\ tokens = <<>>
    /\ pc = "loop"

\* The loop condition holds and the slice can be taken.
InLoop == pc = "loop" /\ index < Len(source) /\ IsCharBoundary(source, index)

Advance ==
    LET r == Iteration(source, index, tokens)
    IN  /\ tokens' = r.tokens
        /\ index' = r.index
        /\ UNCHANGED <<source, pc>>

LineBreakBranch ==
    /\ InLoop
    /\ Rule(curr_substring(source, index)) = "line_break"
    /\ Advance

StringLiteralBranch ==
    /\ InLoop
    /\ Rule(curr_substring(source, index)) = "string_literal"
    /\ Advance

KeywordBranch ==
    /\ InLoop
    /\ Rule(curr_substring(source, index)) = "keyword"
    /\ Advance

IdentifierBranch ==
    /\ InLoop
    /\ Rule(curr_substring(source, index)) = "identifier"
    /\ Advance

NoMatchBranch ==
    /\ InLoop
    /\ Rule(curr_substring(source, index)) = "none"
    /\ Advance

\* source_code[index..] with index inside a character: the slice panics.
SlicePanic ==
    /\ pc = "loop"
    /\ index < Len(source)
    /\ ~IsCharBoundary(source, index)
    /\ pc' = "panic"
    /\ UNCHANGED <<source, index, tokens>>

\* The loop condition fails: tokenize returns the vector.
Return ==
    /\ pc = "loop"
    /\ index >= Len(source)
    /\ tokens' = ReturnValue(tokens, index)
    /\ pc' = "done"
    /\ UNCHANGED <<source, index>>

Next ==
    \/ LineBreakBranch
    \/ StringLiteralBranch
    \/ KeywordBranch
    \/ IdentifierBranch
    \/ NoMatchBranch
    \/ SlicePanic
    \/ Return

Spec == Init /\ [][Next]_vars

TypeOK ==
    /\ index \in 0..(Len(source) + 1)
    /\ pc \in {"loop", "done", "panic"}
    /\ \A k \in DOMAIN tokens : tokens[k].start \in Nat /\ tokens[k].end \in Nat

\* The stepwise scan and the function agree on every completed run.
ScanAgrees ==
    /\ pc = "done" => tokenize(source) = [ok |-> TRUE, tokens |-> tokens]
    /\ pc = "panic" => tokenize(source).ok = FALSE

(***************************************************************************)
(* Properties.                                                             *)
(***************************************************************************)

\* The texts of the tokens toks, concatenated in order.
RECURSIVE ConcatValues(_)
ConcatValues(toks) ==
    IF toks = <<>> THEN <<>> ELSE Head(toks).value \o ConcatValues(Tail(toks))

\* The tokens whose span holds byte offset i.
Covering(i) == {k \in DOMAIN tokens : tokens[k].start <= i /\ i < tokens[k].end}

\* The bytes of source[0..n) that lie in some token, in order.
RECURSIVE CoveredBytes(_)
CoveredBytes(n) ==
    IF n = 0 THEN <<>>
    ELSE IF Covering(n - 1) # {} THEN Append(CoveredBytes(n - 1), source[n])
    ELSE CoveredBytes(n - 1)

\* C1 (as stated): the returned tokens are span-contiguous and total: the
\* first starts at 0, each end is the next start, the last ends at
\* len(S), and the token texts concatenate to S (an unmatched byte being a
\* one-byte Error token).
C1_ContiguousTotal ==
    pc = "done" =>
        /\ ConcatValues(tokens) = source
        /\ source # <<>> =>
              /\ tokens # <<>>
              /\ tokens[1].start = 0
              /\ tokens[Len(tokens)].end = Len(source)
        /\ \A k \in 1..(Len(tokens) - 1) : tokens[k].end = tokens[k + 1].start

\* C1 (amended): spans are ordered with gaps: each token's end is at most
\* the next token's start and the last end is at most the cursor; every
\* scanned byte lies in at most one token; a byte in no token is one at
\* which no rule matched, and it is skipped without an Error token; the
\* token texts concatenate to the scanned input with those bytes removed.
C1_GapsAreUnmatchedBytes ==
    /\ \A k \in 1..(Len(tokens) - 1) : tokens[k].end <= tokens[k + 1].start
    /\ tokens # <<>> => tokens[1].start >= 0 /\ tokens[Len(tokens)].end <= index
    /\ \A k \in DOMAIN tokens : tokens[k].token_type # "Error"
    /\ \A i \in 0..(index - 1) :
          /\ i < Len(source)
          /\ Cardinality(Covering(i)) <= 1
          /\ Covering(i) = {} => Rule(curr_substring(source, i)) = "none"
    /\ ConcatValues(tokens) = CoveredBytes(index)

\* C1 witness: a completed scan that skipped a byte between two tokens.
C1_Witness ==
    /\ pc = "done"
    /\ Len(tokens) = 2
    /\ tokens[1].end < tokens[2].start
    /\ tokens[2].end = Len(source)

\* C2 (as stated): the scan never panics: the slice source_code[index..]
\* is always taken at a character boundary.
C2_NeverPanics ==
    /\ pc # "panic"
    /\ pc = "loop" => IsCharBoundary(source, index)

\* C3 (as stated): the returned sequence is non-empty, holds exactly one
\* EOF token, and that token is last with span [N, N).
C3_ExactlyOneEOFLast ==
    pc = "done" =>
        /\ tokens # <<>>
        /\ tokens[Len(tokens)] = create_token("EOF", <<>>, Len(source), Len(source))
        /\ Cardinality({k \in DOMAIN tokens : tokens[k].token_type = "EOF"}) = 1

\* C3 (amended): the returned sequence holds no EOF token at all; it is
\* empty exactly when no rule matched anywhere, and tokenize("") returns
\* the empty sequence.
C3_NoEOFToken ==
    /\ \A k \in DOMAIN tokens : tokens[k].token_type # "EOF"
    /\ pc = "done" =>
          /\ source = <<>> => tokens = <<>>
          /\ tokens = <<>> <=>
                \A i \in 0..(Len(source) - 1) :
                    Rule(curr_substring(source, i)) = "none"

\* C3 witness: tokenize("") has returned the empty sequence.
C3_Witness == pc = "done" /\ source = <<>> /\ tokens = <<>>

\* The suffix at the cursor.
AtCursor == curr_substring(source, index)

\* The step appends exactly the token (token_type, first n bytes at the cursor).
Emits(token_type, n) ==
    tokens' = Append(tokens, create_token(token_type, SubSeq(AtCursor, 1, n),
                                          index, index + n))

\* C4 (as stated): with the cursor at a reserved word, the step emits that
\* word's own kind when the next character is not an identifier character
\* or the input ends, and otherwise one Identifier covering the whole name.
C4_KeywordWholeWord ==
    [][\A k \in DOMAIN Keywords :
          LET w == Keywords[k].word
          IN  (InLoop /\ StartsWith(AtCursor, w)) =>
                 IF Len(AtCursor) = Len(w) \/ ~IsIdentChar(AtCursor[Len(w) + 1])
                 THEN Emits(Keywords[k].token_type, Len(w))
                 ELSE Emits("Identifier", IdentCharRun(AtCursor, 1))]_vars

\* Length of the quoted run at the start of s: a quote, one or more
\* non-quote bytes and the closing quote; 0 when s does not start with one.
QuotedRun(s) ==
    LET ends == {n \in 3..Len(s) :
                    /\ s[1] = 34
                    /\ s[n] = 34
                    /\ \A j \in 2..(n - 1) : s[j] # 34}
    IN  IF ends = {} THEN 0 ELSE CHOOSE n \in ends : TRUE

\* C5: whenever the text at the cursor is a quote, one or more non-quote
\* characters and a closing quote, the step emits exactly one StringLiteral
\* whose text is the whole quoted run, quotes included, whatever the
\* quoted content spells.
C5_StringLiteralPriority ==
    [][(InLoop /\ QuotedRun(AtCursor) > 0) =>
          Emits("StringLiteral", QuotedRun(AtCursor))]_vars

\* C5 witness: the scan returned one StringLiteral for "model" in quotes.
C5_Witness ==
    /\ pc = "done"
    /\ tokens = << create_token("StringLiteral",
                                <<34, 109, 111, 100, 101, 108, 34>>, 0, 7) >>

\* C6: on an input made only of '\n' and '\r' the returned tokens are one
\* LineBreak per character, in input order, each with a one-character
\* text; a "\r\n" pair is never one token.
C6_LineBreaksNeverMerged ==
    (pc = "done" /\ \A i \in DOMAIN source : source[i] \in {10, 13}) =>
        /\ Len(tokens) = Len(source)
        /\ \A k \in DOMAIN tokens :
              tokens[k] = create_token("LineBreak", <<source[k]>>, k - 1, k)

\* C6 witness: the test input "\n\r\n\r" has returned four tokens.
C6_Witness ==
    pc = "done" /\ source = <<10, 13, 10, 13>> /\ Len(tokens) = 4

IsDigit(b) == b \in 48..57

\* Length of the longest run of digits from s[i].
DigitRun(s, i) ==
    CHOOSE n \in 0..(Len(s) - i + 1) :
        /\ \A j \in i..(i + n - 1) : IsDigit(s[j])
        /\ (i + n <= Len(s) => ~IsDigit(s[i + n]))

\* Length of the number literal at the start of s: an optional '-' and
\* the maximal run of digits; 0 when there is none.
NumberRun(s) ==
    IF s # <<>> /\ IsDigit(s[1]) THEN DigitRun(s, 1)
    ELSE IF Len(s) >= 2 /\ s[1] = 45 /\ IsDigit(s[2]) THEN 1 + DigitRun(s, 2)
    ELSE 0

\* C7 (as stated): with the cursor at a digit, or at '-' followed by a
\* digit, the step emits one NumberLiteral whose text is the optional '-'
\* and the maximal run of digits.
C7_NumberLiteral ==
    [][(InLoop /\ NumberRun(AtCursor) > 0) =>
          Emits("NumberLiteral", NumberRun(AtCursor))]_vars

\* C8: tokenizing the text of any returned token on its own returns
\* exactly one token, of the same kind and with the same text.
C8_IdempotentClassification ==
    pc = "done" =>
        \A k \in DOMAIN tokens :
            LET again == tokenize(tokens[k].value)
            IN  /\ again.ok
                /\ Len(again.tokens) = 1
                /\ again.tokens[1].token_type = tokens[k].token_type
                /\ again.tokens[1].value = tokens[k].value

\* C8 witness: a returned sequence with a keyword token and an identifier
\* token, each of which was tokenized again.
C8_Witness ==
    /\ pc = "done"
    /\ \E i, k \in DOMAIN tokens :
          /\ tokens[i].token_type = "ModelKeyword"
          /\ tokens[k].token_type = "Identifier"
          /\ Len(tokenize(tokens[k].value).tokens) = 1

\* C9: every token has 0 <= start < end <= len(S), its text is
\* S[start..end] (so end - start is the text's byte length), and tokens
\* appear in strictly increasing start order with non-overlapping spans.
C9_SpanTextAgreement ==
    /\ \A k \in DOMAIN tokens :
          /\ 0 <= tokens[k].start
          /\ tokens[k].start < tokens[k].end
          /\ tokens[k].end <= Len(source)
          /\ tokens[k].value = SubSeq(source, tokens[k].start + 1, tokens[k].end)
          /\ tokens[k].end - tokens[k].start = Len(tokens[k].value)
    /\ \A k \in 1..(Len(tokens) - 1) :
          /\ tokens[k].start < tokens[k + 1].start
          /\ tokens[k].end <= tokens[k + 1].start

\* C9 witness: the eleven tokens of the keywords test returned, the second
\* not starting at the first one's end.
C9_Witness ==
    /\ pc = "done"
    /\ Len(tokens) = 11
    /\ tokens[1].end < tokens[2].start
    /\ tokens[11].end = Len(source)

\* C10 (as stated): every iteration of the loop moves the cursor forward
\* by at least one byte and never past len(source), and with the cursor at
\* len(source) the scan returns.
C10_ForwardProgress ==
    [][/\ (pc = "loop" /\ index < Len(source)) =>
             (pc' = "loop" /\ index' > index /\ index' <= Len(source))
       /\ (pc = "loop" /\ index >= Len(source)) => pc' = "done"]_vars
====
